---- MODULE Spec2Model ----
(***************************************************************************)
(* Model of btholt/discord-unifi: the UniFi Protect -> Discord bridge.     *)
(*                                                                         *)
(* The repository holds several programs; `program` says which one runs:   *)
(*   "single"   process-single-event.mjs   (src/unnamed/part_000:1-331)    *)
(*   "uploader" discord-thumbnail-uploader.mjs                             *)
(*   "download" download-thumbnail.mjs                                     *)
(*   "server"   the Express webhook server (routes + DiscordService)       *)
(* JavaScript strings are sequences of one-character strings, so that      *)
(* split / includes / regular-expression matching are computed.            *)
(***************************************************************************)
EXTENDS Integers, Sequences, FiniteSets, TLC

VARIABLES
  program,        \* which executable this behaviour is a run of
  pc,             \* position of the run (the await the code is parked at)
  cookiesTxt,     \* the file cookies.txt
  sessionToken,   \* this.sessionToken
  sessionLoaded,  \* what loadExistingSession returned in ensureAuthenticated
  authResult,     \* what ensureAuthenticated returned ("none" before)
  calls,          \* outbound HTTP calls issued so far, in order
  files,          \* thumbnail files present in the working directory
  events,         \* uploader: the event list returned by getEvents
  idx,            \* uploader: position in the for-of loop over events
  successCount,   \* uploader: run's successCount
  failureCount,   \* uploader: run's failureCount
  processed,      \* ids handed to processEvent, in order
  eventResult,    \* what the last processEvent returned ("none" before)
  env,            \* server: process.env and which revision of the server runs
  reqBody,        \* server: req.body of the request being handled
  srv,            \* server: the locals of the handler and of processAndSend
  res,            \* server: the response sent for the request
  procs           \* concurrent dispatches sharing cookies.txt: their locals

cliVars == <<cookiesTxt, sessionToken, sessionLoaded, authResult, files,
             events, idx, successCount, failureCount, processed, eventResult>>

srvVars == <<env, reqBody, srv, res>>

vars == <<program, pc, calls, cliVars, srvVars, procs>>

----------------------------------------------------------------------------
(* Bounds of the model *)

MaxEvents == 2

\* dispatches that run concurrently against one cookies.txt
NumDispatches == 3

----------------------------------------------------------------------------
(* JavaScript strings as character sequences *)

s_TOKEN_EQ == <<"T", "O", "K", "E", "N", "=">>
s_TOKEN_TAB == <<"T", "O", "K", "E", "N", "\t">>
s_SEMI == <<";">>
s_TAB == <<"\t">>
s_TRUE == <<"T", "R", "U", "E">>
s_PATH == <<"/", "p", "r", "o", "x", "y", "/", "p", "r", "o", "t", "e", "c", "t", "/">>
s_HOST == <<"h">>
s_TOKEN == <<"T", "O", "K", "E", "N">>

\* null (this.sessionToken = null); no character sequence equals it
Null == <<"null">>

\* JavaScript truthiness of a string-or-null
Truthy(s) == s # Null /\ s # <<>>

\* s.indexOf(sub, from) with 1-based positions; 0 when absent
IndexOf(s, sub, from) ==
  LET cand == {i \in from..(Len(s) - Len(sub) + 1) :
                 SubSeq(s, i, i + Len(sub) - 1) = sub}
  IN IF cand = {} THEN 0 ELSE CHOOSE i \in cand : \A j \in cand : i <= j

\* s.includes(sub)
Includes(s, sub) == IndexOf(s, sub, 1) # 0

\* s.split(sep), sep non-empty
RECURSIVE Split(_, _)
Split(s, sep) ==
  LET i == IndexOf(s, sep, 1)
  IN IF i = 0 THEN <<s>>
     ELSE <<SubSeq(s, 1, i - 1)>> \o Split(SubSeq(s, i + Len(sep), Len(s)), sep)

\* String(n) for a non-negative integer
RECURSIVE Digits(_)
Digits(n) ==
  LET d == <<"0", "1", "2", "3", "4", "5", "6", "7", "8", "9">>
  IN IF n < 10 THEN <<d[n + 1]>> ELSE Digits(n \div 10) \o <<d[(n % 10) + 1]>>

----------------------------------------------------------------------------
(* HTTP clients *)

\* this.client = axios.create({httpsAgent: new https.Agent({rejectUnauthorized: false}), ...})
ProtectClient == [name |-> "this.client", rejectUnauthorized |-> FALSE]

\* the axios default instance: Node's default agent validates certificates
DefaultAxios == [name |-> "axios", rejectUnauthorized |-> TRUE]

\* one outbound HTTP call: the client it went through, the host it went to,
\* the operation, whether it resolved, and what came back
Call(client, dest, op, ok, info) ==
  [client |-> client, dest |-> dest, op |-> op, ok |-> ok, info |-> info]

CallsOf(op) == {i \in DOMAIN calls : calls[i].op = op}

----------------------------------------------------------------------------
(* Session file and authentication (CLI drivers) *)

NoFile == [exists |-> FALSE, readable |-> FALSE, content |-> <<>>]

FileWith(content) == [exists |-> TRUE, readable |-> TRUE, content |-> content]

\* variant: the fields of the line are separated by spaces
cookieLine_Spaces(host, expiry, token) ==
  host \o <<" ">> \o s_TRUE \o <<" ">> \o s_PATH \o <<" ">> \o s_TRUE \o <<" ">>
       \o Digits(expiry) \o <<" ">> \o s_TOKEN \o <<" ">> \o token

\* const cookieLine = `${host}\tTRUE\t/proxy/protect/\tTRUE\t${expiry}\tTOKEN\t${token}`
cookieLine(host, expiry, token) ==
  host \o s_TAB \o s_TRUE \o s_TAB \o s_PATH \o s_TAB \o s_TRUE \o s_TAB
       \o Digits(expiry) \o s_TAB \o s_TOKEN \o s_TAB \o token

\* Math.floor(Date.now() / 1000) + 24 * 60 * 60
Expiry(nowSeconds) == nowSeconds + 24 * 60 * 60

\* cookieContent.match(/TOKEN\t([^\t\n]+)/): the capture group, Null if no match
tokenMatch(content) ==
  LET stop(c) == c \in {"\t", "\n"}
      starts == {i \in 1..Len(content) :
                   /\ i + 6 <= Len(content)
                   /\ SubSeq(content, i, i + 5) = s_TOKEN_TAB
                   /\ ~stop(content[i + 6])}
  IN IF starts = {} THEN Null
     ELSE LET i == CHOOSE k \in starts : \A j \in starts : k <= j
              ends == {e \in (i + 6)..Len(content) :
                         /\ \A k \in (i + 6)..e : ~stop(content[k])
                         /\ (e = Len(content) \/ stop(content[e + 1]))}
          IN SubSeq(content, i + 6, CHOOSE e \in ends : TRUE)

\* loadExistingSession(): [ok |-> what it returns, token |-> this.sessionToken after]
loadExistingSession(file, token) ==
  IF ~file.exists THEN [ok |-> FALSE, token |-> token]
  ELSE IF ~file.readable THEN [ok |-> FALSE, token |-> token]
  ELSE LET m == tokenMatch(file.content)
       IN IF m # Null THEN [ok |-> TRUE, token |-> m]
          ELSE [ok |-> FALSE, token |-> token]

\* the for-of loop over loginResponse.headers["set-cookie"]:
\* this.sessionToken after the loop, starting from `token`
RECURSIVE extractToken(_, _)
extractToken(token, cookies) ==
  IF cookies = <<>> THEN token
  ELSE IF Includes(Head(cookies), s_TOKEN_EQ)
       THEN Split(Split(Head(cookies), s_TOKEN_EQ)[2], s_SEMI)[1]
       ELSE extractToken(token, Tail(cookies))

\* authenticate(): what it returns, this.sessionToken and cookies.txt after it
authenticate(token, file, resp, nowSeconds) ==
  IF resp.kind = "error"
    THEN [ok |-> FALSE, token |-> token, file |-> file]
    ELSE LET t == IF resp.hasCookies THEN extractToken(token, resp.cookies)
                  ELSE token
         IN IF ~Truthy(t)
              THEN [ok |-> FALSE, token |-> t, file |-> file]
              ELSE [ok |-> TRUE, token |-> t,
                    file |-> FileWith(cookieLine(s_HOST, Expiry(nowSeconds), t))]

\* variant: the `return true` after the probe is missing
ProbeNext_FallThrough(probeOk) == "login"

\* ensureAuthenticated after the probe: return true, or fall through to authenticate
ProbeNext(probeOk) == IF probeOk THEN "return" ELSE "login"

\* variant: run() does not test what ensureAuthenticated returned
AfterAuth_IgnoreResult(prog, ok) ==
  IF prog = "single" THEN "getEventInfo" ELSE "getEvents"

\* run(): what follows ensureAuthenticated
AfterAuth(prog, ok) ==
  IF ~ok THEN "done"
  ELSE IF prog = "single" THEN "getEventInfo" ELSE "getEvents"

----------------------------------------------------------------------------
(* Inputs: what the environment can hand to the program *)

c_tokA == s_TOKEN_EQ \o <<"a", ";", " ", "P">>
c_tokB == s_TOKEN_EQ \o <<"b">>
c_empty == s_TOKEN_EQ \o <<";">>
c_other == <<"X", "=", "1", ";">>
\* a token of the shape the platform issues (base64url segments joined by dots)
c_tokJ == s_TOKEN_EQ \o <<"T", "O", "K", "E", "N", ".", "e", "y", "J", "-", "_", ";", " ", "P">>

\* responses of POST /api/auth/login
LoginResponses ==
  {[kind |-> "error", hasCookies |-> FALSE, cookies |-> <<>>],
   [kind |-> "ok", hasCookies |-> FALSE, cookies |-> <<>>]}
  \cup {[kind |-> "ok", hasCookies |-> TRUE, cookies |-> cs] :
          cs \in {<<>>, <<c_other>>, <<c_tokA>>, <<c_other, c_tokB>>,
                  <<c_empty>>, <<c_empty, c_tokA>>, <<c_tokJ>>}}

\* Math.floor(Date.now() / 1000)
Clock == {1722526793}

\* cookies.txt as a run may find it
InitialCookieFiles ==
  {NoFile,
   [exists |-> TRUE, readable |-> FALSE, content |-> <<>>],
   FileWith(<<>>),
   FileWith(<<"j", "u", "n", "k">>),
   FileWith(cookieLine(s_HOST, Expiry(1722440393), <<"o", "l", "d">>))}

EventIds == {"e1", "e2"}

RawEvents == [id : EventIds, camera : BOOLEAN, type : {"motion", "ring"}]

RECURSIVE SeqsUpTo(_, _)
SeqsUpTo(S, n) ==
  IF n = 0 THEN {<<>>}
  ELSE LET shorter == SeqsUpTo(S, n - 1)
       IN shorter \cup {Append(q, x) : q \in shorter, x \in S}

EventsResponses ==
  {[kind |-> "error", shape |-> "none", list |-> <<>>],
   [kind |-> "ok", shape |-> "other", list |-> <<>>]}
  \cup {[kind |-> "ok", shape |-> sh, list |-> l] :
          sh \in {"array", "wrapped"}, l \in SeqsUpTo(RawEvents, MaxEvents)}

----------------------------------------------------------------------------
(* CLI drivers: process-single-event.mjs and discord-thumbnail-uploader.mjs *)

\* getEvents(): the filter over the listed events
thumbnailEventTypes ==
  {"motion", "smartAudioDetect", "smartDetectZone", "smartDetectLine",
   "smartDetectObject"}

eventsWithThumbnails(list) ==
  SelectSeq(list, LAMBDA e : e.camera /\ e.type \in thumbnailEventTypes)

\* getEvents(): the list it returns for a response
getEvents(resp) ==
  IF resp.kind = "ok" /\ resp.shape \in {"array", "wrapped"}
    THEN eventsWithThumbnails(resp.list)
    ELSE <<>>

\* variant: the upload goes through this.client
UploadClient_Relaxed == ProtectClient

\* the client uploadToDiscord posts through: axios.post(this.discordWebhook, ...)
UploadClient == DefaultAxios

\* response.status === 204 || response.status === 200
uploadOk(status) == status \in {"200", "204"}

\* downloadThumbnail: response.status === 200
downloadOk(status) == status = "200"

\* processEvent after a failed upload: `return false` before the unlinkSync
FilesAfterUpload(fs, id, ok) == IF ok THEN fs \ {id} ELSE fs

CurrentId == events[idx].id

\* ensureAuthenticated(): loadExistingSession, up to the first await
EnsureAuthenticated ==
  /\ program \in {"single", "uploader"}
  /\ pc = "start"
  /\ LET r == loadExistingSession(cookiesTxt, sessionToken)
     IN /\ sessionToken' = r.token
        /\ sessionLoaded' = r.ok
        /\ pc' = IF r.ok THEN "probe" ELSE "login"
  /\ UNCHANGED <<procs, srvVars, program, calls, cookiesTxt, authResult, files, events, idx,
                 successCount, failureCount, processed, eventResult>>

\* ensureAuthenticated(): await this.client.get(/api/auth/me) and what follows
Probe ==
  /\ pc = "probe"
  /\ \E ok \in BOOLEAN :
       /\ calls' = Append(calls, Call(ProtectClient, "protect", "probe", ok, "me"))
       /\ IF ProbeNext(ok) = "return"
            THEN /\ authResult' = "true"
                 /\ pc' = AfterAuth(program, TRUE)
            ELSE /\ authResult' = authResult
                 /\ pc' = "login"
  /\ UNCHANGED <<procs, srvVars, program, cookiesTxt, sessionToken, sessionLoaded, files, events,
                 idx, successCount, failureCount, processed, eventResult>>

\* authenticate(): await this.client.post(/api/auth/login) and what follows
Authenticate ==
  /\ pc = "login"
  /\ \E resp \in LoginResponses, now \in Clock :
       LET r == authenticate(sessionToken, cookiesTxt, resp, now)
       IN /\ calls' = Append(calls, Call(ProtectClient, "protect", "login",
                                         resp.kind = "ok", resp))
          /\ sessionToken' = r.token
          /\ cookiesTxt' = r.file
          /\ authResult' = IF r.ok THEN "true" ELSE "false"
          /\ pc' = AfterAuth(program, r.ok)
  /\ UNCHANGED <<procs, srvVars, program, sessionLoaded, files, events, idx, successCount,
                 failureCount, processed, eventResult>>

\* uploader run(): await this.getEvents()
GetEvents ==
  /\ pc = "getEvents"
  /\ \E resp \in EventsResponses :
       LET l == getEvents(resp)
       IN /\ calls' = Append(calls, Call(ProtectClient, "protect", "events",
                                         resp.kind = "ok", sessionToken))
          /\ events' = l
          /\ IF Len(l) = 0
               THEN /\ pc' = "done"
                    /\ UNCHANGED <<idx, processed>>
               ELSE /\ pc' = "download"
                    /\ idx' = 1
                    /\ processed' = Append(processed, l[1].id)
  /\ UNCHANGED <<procs, srvVars, program, cookiesTxt, sessionToken, sessionLoaded, authResult,
                 files, successCount, failureCount, eventResult>>

\* variant: the loop of run() ends at the first event that failed
loopContinues_StopOnFailure(success, i, n) == success /\ i < n

\* run(): the for-of loop over events goes on while an event is left, whatever
\* processEvent returned
loopContinues(success, i, n) == i < n

\* what run() does when processEvent has returned `success`
EndEvent(success) ==
  /\ eventResult' = IF success THEN "true" ELSE "false"
  /\ IF program = "single"
       THEN /\ pc' = "done"
            /\ UNCHANGED <<idx, successCount, failureCount, processed>>
       ELSE /\ successCount' = IF success THEN successCount + 1 ELSE successCount
            /\ failureCount' = IF success THEN failureCount ELSE failureCount + 1
            /\ IF loopContinues(success, idx, Len(events))
                 THEN /\ idx' = idx + 1
                      /\ processed' = Append(processed, events[idx + 1].id)
                      /\ pc' = "download"
                 ELSE /\ pc' = "done"
                      /\ UNCHANGED <<idx, processed>>

\* single processEvent(): await this.getEventInfo(eventId)
GetEventInfo ==
  /\ pc = "getEventInfo"
  /\ \E r \in {"data", "empty", "error"} :
       /\ calls' = Append(calls, Call(ProtectClient, "protect", "eventInfo",
                                      r # "error", sessionToken))
       /\ IF r = "data"
            THEN /\ pc' = "download"
                 /\ UNCHANGED <<idx, successCount, failureCount, processed,
                                eventResult>>
            ELSE EndEvent(FALSE)
  /\ UNCHANGED <<procs, srvVars, program, cookiesTxt, sessionToken, sessionLoaded, authResult,
                 files, events>>

\* processEvent(): await this.downloadThumbnail(eventId, fileName)
DownloadThumbnail ==
  /\ pc = "download"
  /\ \E status \in {"200", "204", "error"} :
       /\ calls' = Append(calls, Call(ProtectClient, "protect", "thumbnail",
                                      status # "error",
                                      [token |-> sessionToken, id |-> CurrentId,
                                       status |-> status]))
       /\ IF downloadOk(status)
            THEN /\ files' = files \cup {CurrentId}
                 /\ pc' = "upload"
                 /\ UNCHANGED <<idx, successCount, failureCount, processed,
                                eventResult>>
            ELSE /\ files' = files
                 /\ EndEvent(FALSE)
  /\ UNCHANGED <<procs, srvVars, program, cookiesTxt, sessionToken, sessionLoaded, authResult,
                 events>>

\* processEvent(): await this.uploadToDiscord(fileName, event), then the cleanup
UploadToDiscord ==
  /\ pc = "upload"
  /\ \E status \in {"200", "204", "201", "error"} :
       /\ calls' = Append(calls, Call(UploadClient, "discord", "upload",
                                      status # "error",
                                      [id |-> CurrentId, status |-> status]))
       /\ files' = FilesAfterUpload(files, CurrentId, uploadOk(status))
       /\ EndEvent(uploadOk(status))
  /\ UNCHANGED <<procs, srvVars, program, cookiesTxt, sessionToken, sessionLoaded, authResult,
                 events>>

----------------------------------------------------------------------------
(* download-thumbnail.mjs: fetches one animated thumbnail.  It has its own *)
(* authenticate and session load, and no probe of the loaded token.        *)

\* const client = axios.create({httpsAgent: new https.Agent({rejectUnauthorized: false}), ...})
DownloadClient == [name |-> "client", rejectUnauthorized |-> FALSE]

\* the head of downloadThumbnail: existsSync, readFileSync, match.  The read is
\* in no try block, so a file that cannot be read raises out of downloadThumbnail
cachedToken(file) ==
  IF ~file.exists THEN [raised |-> FALSE, token |-> Null]
  ELSE IF ~file.readable THEN [raised |-> TRUE, token |-> Null]
  ELSE [raised |-> FALSE, token |-> tokenMatch(file.content)]

\* authenticate() of download-thumbnail.mjs from the login response on: the
\* token it returns (Null for null) and cookies.txt after it
downloadAuthenticate(file, resp, nowSeconds) ==
  IF resp.kind = "error" \/ ~resp.hasCookies
    THEN [token |-> Null, file |-> file]
    ELSE LET t == extractToken(Null, resp.cookies)
         IN IF ~Truthy(t)
              THEN [token |-> Null, file |-> file]
              ELSE [token |-> t,
                    file |-> FileWith(cookieLine(s_HOST, Expiry(nowSeconds), t))]

\* downloadThumbnail up to its first await
DownloadStart ==
  /\ program = "download"
  /\ pc = "start"
  /\ LET r == cachedToken(cookiesTxt)
     IN /\ sessionToken' = r.token
        /\ sessionLoaded' = Truthy(r.token)
        /\ pc' = IF r.raised THEN "crashed"
                 ELSE IF Truthy(r.token) THEN "dlFetch" ELSE "dlPage"
  /\ UNCHANGED <<procs, srvVars, program, calls, cookiesTxt, authResult, files, events, idx,
                 successCount, failureCount, processed, eventResult>>

\* authenticate(): await client.get(`https://${host}/`) and the csrfToken match
DownloadLoginPage ==
  /\ pc = "dlPage"
  /\ \E page \in {"csrf", "no csrf", "error"} :
       /\ calls' = Append(calls, Call(DownloadClient, "protect", "loginPage",
                                      page # "error", page))
       /\ IF page = "csrf"
            THEN /\ pc' = "dlLogin"
                 /\ eventResult' = eventResult
            ELSE /\ pc' = "done"
                 /\ eventResult' = "false"
  /\ UNCHANGED <<procs, srvVars, program, cookiesTxt, sessionToken, sessionLoaded, authResult,
                 files, events, idx, successCount, failureCount, processed>>

\* authenticate(): await client.post(/api/auth/login) and what follows
DownloadLogin ==
  /\ pc = "dlLogin"
  /\ \E resp \in LoginResponses, now \in Clock :
       LET r == downloadAuthenticate(cookiesTxt, resp, now)
       IN /\ calls' = Append(calls, Call(DownloadClient, "protect", "login",
                                         resp.kind = "ok", resp))
          /\ sessionToken' = r.token
          /\ cookiesTxt' = r.file
          /\ IF Truthy(r.token)
               THEN /\ pc' = "dlFetch"
                    /\ eventResult' = eventResult
               ELSE /\ pc' = "done"
                    /\ eventResult' = "false"
  /\ UNCHANGED <<procs, srvVars, program, sessionLoaded, authResult, files, events, idx,
                 successCount, failureCount, processed>>

\* downloadThumbnail: await client.get(url) with Cookie: TOKEN=..., then the
\* output file is written and main reports
DownloadFetch ==
  /\ pc = "dlFetch"
  /\ \E status \in {"200", "204", "error"} :
       /\ calls' = Append(calls, Call(DownloadClient, "protect", "thumbnail",
                                      status # "error",
                                      [token |-> sessionToken, id |-> CurrentId,
                                       status |-> status]))
       /\ files' = IF downloadOk(status) THEN files \cup {CurrentId} ELSE files
       /\ eventResult' = IF downloadOk(status) THEN "true" ELSE "false"
       /\ pc' = "done"
  /\ UNCHANGED <<procs, srvVars, program, cookiesTxt, sessionToken, sessionLoaded, authResult,
                 events, idx, successCount, failureCount, processed>>

----------------------------------------------------------------------------
(* JSON values of the webhook server.  An object is a record over every    *)
(* key the code reads; a key the payload does not carry holds Undef.       *)

Undef == [t |-> "undefined"]
JNull == [t |-> "null"]
Str(s) == [t |-> "string", v |-> s]
\* a non-negative number, held as its decimal digits
Num(d) == [t |-> "number", v |-> d]
Arr(a) == [t |-> "array", v |-> a]
Obj(f) == [t |-> "object", v |-> f]

Nullish(x) == x.t \in {"undefined", "null"}

\* Boolean(x)
JsTruthy(x) ==
  CASE x.t \in {"undefined", "null"} -> FALSE
    [] x.t = "string" -> x.v # <<>>
    [] x.t = "number" -> x.v # <<"0">>
    [] OTHER -> TRUE

\* typeof x === "object"
TypeofObject(x) == x.t \in {"null", "array", "object"}

\* x[k] for a non-nullish x
Prop(x, k) == IF x.t = "object" /\ k \in DOMAIN x.v THEN x.v[k] ELSE Undef

\* a === b for the values compared by the code (strings against strings)
StrictEq(a, b) ==
  /\ a.t = b.t
  /\ a.t \in {"undefined", "null"} \/ (a.t \in {"string", "number"} /\ a.v = b.v)

----------------------------------------------------------------------------
(* utils/validator.js *)

e_body == "Request body must be a valid JSON object"
e_alarm == "Missing required field: alarm"
e_name == "Missing required field: alarm.name"
e_conditions == "Missing required field: alarm.conditions (must be an array)"
e_triggers == "Missing required field: alarm.triggers (must be an array)"
e_timestamp == "Missing required field: timestamp"
e_secret == "Invalid webhook secret"

\* the `secret && body.secret !== secret` check
secretErrors(body, secret) ==
  IF JsTruthy(secret) /\ ~StrictEq(Prop(body, "secret"), secret)
    THEN <<e_secret>> ELSE <<>>

\* validateWebhookRequest(body, secret): the errors array
validationErrors(body, secret) ==
  IF ~JsTruthy(body) \/ ~TypeofObject(body) THEN <<e_body>>
  ELSE LET alarm == Prop(body, "alarm")
       IN IF ~JsTruthy(alarm) \/ ~TypeofObject(alarm) THEN <<e_alarm>>
          ELSE (IF ~JsTruthy(Prop(alarm, "name")) THEN <<e_name>> ELSE <<>>)
            \o (IF ~JsTruthy(Prop(alarm, "conditions"))
                   \/ Prop(alarm, "conditions").t # "array"
                  THEN <<e_conditions>> ELSE <<>>)
            \o (IF ~JsTruthy(Prop(alarm, "triggers"))
                   \/ Prop(alarm, "triggers").t # "array"
                  THEN <<e_triggers>> ELSE <<>>)
            \o (IF ~JsTruthy(Prop(body, "timestamp"))
                  THEN <<e_timestamp>> ELSE <<>>)
            \o secretErrors(body, secret)

\* validateWebhookRequest(body, secret)
validateWebhookRequest(body, secret) ==
  LET errors == validationErrors(body, secret)
  IN [isValid |-> Len(errors) = 0, errors |-> errors]

s_null == <<"n", "u", "l", "l">>
s_undefined == <<"u", "n", "d", "e", "f", "i", "n", "e", "d">>
s_objectObject ==
  <<"[", "o", "b", "j", "e", "c", "t", " ", "O", "b", "j", "e", "c", "t", "]">>

\* String(x), also what a template literal `${x}` yields
RECURSIVE JsString(_)
JsString(x) ==
  CASE x.t \in {"string", "number"} -> x.v
    [] x.t = "null" -> s_null
    [] x.t = "undefined" -> s_undefined
    [] x.t = "array" ->
         LET RECURSIVE join(_)
             join(a) ==
               IF a = <<>> THEN <<>>
               ELSE (IF Nullish(Head(a)) THEN <<>> ELSE JsString(Head(a)))
                    \o (IF Len(a) > 1 THEN <<",">> ELSE <<>>) \o join(Tail(a))
         IN join(x.v)
    [] OTHER -> s_objectObject

\* String(x).substring(0, n)
Clip(x, n) ==
  LET str == JsString(x)
  IN Str(IF Len(str) > n THEN SubSeq(str, 1, n) ELSE str)

BodyKeys ==
  {"alarm", "timestamp", "secret", "password", "token", "description", "cameraName"}

\* variant: the three `delete` statements are missing
sanitizeData_KeepSecret(data) ==
  IF data.t # "object" THEN Obj([k \in BodyKeys |-> Undef]) ELSE
  LET kept == [k \in DOMAIN data.v |->
                 IF k = "cameraName" /\ JsTruthy(data.v[k])
                   THEN Clip(data.v[k], 100)
                 ELSE IF k = "description" /\ JsTruthy(data.v[k])
                   THEN Clip(data.v[k], 2000)
                 ELSE data.v[k]]
  IN Obj(kept)

\* sanitizeData(data): the spread copy of an object; a body that is not an
\* object has none of the keys the code reads
sanitizeData(data) ==
  IF data.t # "object" THEN Obj([k \in BodyKeys |-> Undef]) ELSE
  LET kept == [k \in DOMAIN data.v |->
                 IF k \in {"secret", "password", "token"} THEN Undef
                 ELSE IF k = "cameraName" /\ JsTruthy(data.v[k])
                   THEN Clip(data.v[k], 100)
                 ELSE IF k = "description" /\ JsTruthy(data.v[k])
                   THEN Clip(data.v[k], 2000)
                 ELSE data.v[k]]
  IN Obj(kept)

----------------------------------------------------------------------------
(* services/discord.js: the extraction heuristics *)

\* the value of an expression that raised
Threw == [t |-> "throw"]

upperCase ==
  <<"A", "B", "C", "D", "E", "F", "G", "H", "I", "J", "K", "L", "M",
    "N", "O", "P", "Q", "R", "S", "T", "U", "V", "W", "X", "Y", "Z">>
lowerCase ==
  <<"a", "b", "c", "d", "e", "f", "g", "h", "i", "j", "k", "l", "m",
    "n", "o", "p", "q", "r", "s", "t", "u", "v", "w", "x", "y", "z">>

\* s.toLowerCase()
toLowerCase(s) ==
  [i \in 1..Len(s) |->
     IF \E k \in 1..26 : upperCase[k] = s[i]
       THEN lowerCase[CHOOSE k \in 1..26 : upperCase[k] = s[i]]
       ELSE s[i]]

s_motion == <<"m", "o", "t", "i", "o", "n">>
s_person == <<"p", "e", "r", "s", "o", "n">>
s_vehicle == <<"v", "e", "h", "i", "c", "l", "e">>
s_package == <<"p", "a", "c", "k", "a", "g", "e">>
s_alert == <<"a", "l", "e", "r", "t">>
s_face_known == <<"f", "a", "c", "e", "_", "k", "n", "o", "w", "n">>
s_face_unknown == <<"f", "a", "c", "e", "_", "u", "n", "k", "n", "o", "w", "n">>
s_unknown == <<"u", "n", "k", "n", "o", "w", "n">>

\* variant: the test for "person" comes before the test for "motion"
keywords_PersonFirst(version) ==
  IF version = "thumb"
    THEN <<s_person, s_motion, s_vehicle, s_package, s_alert, s_face_known,
           s_face_unknown>>
    ELSE <<s_person, s_motion, s_vehicle, s_package, s_alert>>

\* the chain of `if (source.includes(k)) return k` tests, in source order
keywords(version) ==
  IF version = "thumb"
    THEN <<s_motion, s_person, s_vehicle, s_package, s_alert, s_face_known,
           s_face_unknown>>
    ELSE <<s_motion, s_person, s_vehicle, s_package, s_alert>>

\* the first keyword of kws that source includes, Undef if none
RECURSIVE firstKeyword(_, _)
firstKeyword(source, kws) ==
  IF kws = <<>> THEN Undef
  ELSE IF Includes(source, Head(kws)) THEN Str(Head(kws))
  ELSE firstKeyword(source, Tail(kws))

\* the for-of loop of extractEventType: a keyword, Undef when it ends, Threw
RECURSIVE scanConditions(_, _)
scanConditions(conds, kws) ==
  IF conds = <<>> THEN Undef
  ELSE IF Nullish(Head(conds)) THEN Threw
  ELSE LET c == Prop(Head(conds), "condition")
           source == IF Nullish(c) THEN Undef ELSE Prop(c, "source")
       IN IF JsTruthy(c) /\ JsTruthy(source)
            THEN IF source.t # "string" THEN Threw
                 ELSE LET k == firstKeyword(toLowerCase(source.v), kws)
                      IN IF k # Undef THEN k
                         ELSE scanConditions(Tail(conds), kws)
            ELSE scanConditions(Tail(conds), kws)

\* variant: the fallback takes the first condition that has a source
fallbackCondition_FirstWithSource(conds) ==
  LET withSource == {i \in DOMAIN conds :
                       /\ ~Nullish(conds[i])
                       /\ JsTruthy(Prop(Prop(conds[i], "condition"), "source"))}
  IN IF withSource = {} THEN Undef
     ELSE conds[CHOOSE i \in withSource : \A j \in withSource : i <= j]

\* const firstCondition = alarm.conditions[0]
fallbackCondition(conds) == IF conds = <<>> THEN Undef ELSE conds[1]

\* extractEventType(alarm)
extractEventType(alarm, version) ==
  LET conditions == Prop(alarm, "conditions")
  IN IF ~JsTruthy(conditions) \/ conditions.t # "array" THEN Str(s_unknown)
     ELSE LET found == scanConditions(conditions.v, keywords(version))
          IN IF found # Undef THEN found
             ELSE LET firstCondition == fallbackCondition(conditions.v)
                      c == IF JsTruthy(firstCondition)
                             THEN Prop(firstCondition, "condition") ELSE Undef
                      source == IF JsTruthy(c) THEN Prop(c, "source") ELSE Undef
                  IN IF JsTruthy(source)
                       THEN IF source.t # "string" THEN Threw
                            ELSE Str(toLowerCase(source.v))
                       ELSE Str(s_unknown)

s_Device == <<"D", "e", "v", "i", "c", "e", ":", " ">>
s_Trigger == <<"T", "r", "i", "g", "g", "e", "r", ":", " ">>
s_bar == <<" ", "|", " ">>

\* the for-of loop of extractDeviceInfo over non-null triggers: the fragments pushed
RECURSIVE deviceFragments(_)
deviceFragments(trigs) ==
  IF trigs = <<>> THEN <<>>
  ELSE LET device == Prop(Head(trigs), "device")
           key == Prop(Head(trigs), "key")
       IN (IF JsTruthy(device) THEN <<s_Device \o JsString(device)>> ELSE <<>>)
            \o (IF JsTruthy(key) THEN <<s_Trigger \o JsString(key)>> ELSE <<>>)
            \o deviceFragments(Tail(trigs))

\* parts.join(sep)
RECURSIVE Join(_, _)
Join(parts, sep) ==
  IF parts = <<>> THEN <<>>
  ELSE IF Len(parts) = 1 THEN parts[1]
  ELSE parts[1] \o sep \o Join(Tail(parts), sep)

\* variant: the fragments are joined with ", "
extractDeviceInfo_Comma(alarm) ==
  LET triggers == Prop(alarm, "triggers")
  IN IF ~JsTruthy(triggers) \/ triggers.t # "array" THEN JNull
     ELSE IF \E i \in DOMAIN triggers.v : Nullish(triggers.v[i]) THEN Threw
     ELSE LET deviceInfo == deviceFragments(triggers.v)
          IN IF Len(deviceInfo) > 0 THEN Str(Join(deviceInfo, <<",", " ">>)) ELSE JNull

\* extractDeviceInfo(alarm)
extractDeviceInfo(alarm) ==
  LET triggers == Prop(alarm, "triggers")
  IN IF ~JsTruthy(triggers) \/ triggers.t # "array" THEN JNull
     ELSE IF \E i \in DOMAIN triggers.v : Nullish(triggers.v[i]) THEN Threw
     ELSE LET deviceInfo == deviceFragments(triggers.v)
          IN IF Len(deviceInfo) > 0 THEN Str(Join(deviceInfo, s_bar)) ELSE JNull

\* variant: trigger.value is preferred to trigger.group.name
personName_ValueFirst(trigger) ==
  LET group == Prop(trigger, "group")
      groupName == IF JsTruthy(group) THEN Prop(group, "name") ELSE Undef
  IN IF JsTruthy(Prop(trigger, "value")) THEN Prop(trigger, "value")
     ELSE IF JsTruthy(groupName) THEN groupName
     ELSE JNull

\* personInfo.name: trigger.group.name, else trigger.value, else the initial null
personName(trigger) ==
  LET group == Prop(trigger, "group")
      groupName == IF JsTruthy(group) THEN Prop(group, "name") ELSE Undef
  IN IF JsTruthy(groupName) THEN groupName
     ELSE IF JsTruthy(Prop(trigger, "value")) THEN Prop(trigger, "value")
     ELSE JNull

\* the for-of loop of extractPersonInfo
RECURSIVE scanPerson(_)
scanPerson(trigs) ==
  IF trigs = <<>> THEN JNull
  ELSE IF Nullish(Head(trigs)) THEN Threw
  ELSE LET trigger == Head(trigs)
           key == Prop(trigger, "key")
       IN IF StrictEq(key, Str(s_face_known)) \/ StrictEq(key, Str(s_face_unknown))
            THEN Obj([name |-> personName(trigger),
                      eventId |-> Prop(trigger, "eventId")])
            ELSE scanPerson(Tail(trigs))

\* variant: no person record is extracted
extractPersonInfo_None(alarm) == JNull

\* extractPersonInfo(alarm)
extractPersonInfo(alarm) ==
  LET triggers == Prop(alarm, "triggers")
  IN IF ~JsTruthy(triggers) \/ triggers.t # "array" THEN JNull
     ELSE scanPerson(triggers.v)

\* the for-of loop of extractEventId
RECURSIVE scanEventId(_)
scanEventId(trigs) ==
  IF trigs = <<>> THEN JNull
  ELSE IF Nullish(Head(trigs)) THEN Threw
  ELSE IF JsTruthy(Prop(Head(trigs), "eventId")) THEN Prop(Head(trigs), "eventId")
  ELSE scanEventId(Tail(trigs))

\* extractEventId(alarm)
extractEventId(alarm) ==
  LET triggers == Prop(alarm, "triggers")
  IN IF ~JsTruthy(triggers) \/ triggers.t # "array" THEN JNull
     ELSE scanEventId(triggers.v)

----------------------------------------------------------------------------
(* services/discord.js: message construction *)

s_MotionDetected ==
  <<"M", "o", "t", "i", "o", "n", " ", "D", "e", "t", "e", "c", "t", "e", "d">>
s_AlertTriggered ==
  <<"A", "l", "e", "r", "t", " ", "T", "r", "i", "g", "g", "e", "r", "e", "d">>
s_PersonDetected ==
  <<"P", "e", "r", "s", "o", "n", " ", "D", "e", "t", "e", "c", "t", "e", "d">>
s_VehicleDetected ==
  <<"V", "e", "h", "i", "c", "l", "e", " ", "D", "e", "t", "e", "c", "t", "e", "d">>
s_PackageDetected ==
  <<"P", "a", "c", "k", "a", "g", "e", " ", "D", "e", "t", "e", "c", "t", "e", "d">>
s_KnownPersonDetected == <<"K", "n", "o", "w", "n", " ">> \o s_PersonDetected
s_UnknownPersonDetected == <<"U", "n", "k", "n", "o", "w", "n", " ">> \o s_PersonDetected
s_EventDetected ==
  <<"E", "v", "e", "n", "t", " ", "D", "e", "t", "e", "c", "t", "e", "d">>
s_constructor == <<"c", "o", "n", "s", "t", "r", "u", "c", "t", "o", "r">>
s_proto == <<"_", "_", "p", "r", "o", "t", "o", "_", "_">>

\* an emoji is one element of a string, written by its name
Config(emoji, title, color) ==
  [emoji |-> Str(<<emoji>>), title |-> Str(title), color |-> Num(Digits(color))]

\* getEventConfig(eventType): configs[eventType.toLowerCase()] || fallback.
\* configs is an object literal, so the lookup also finds the keys it inherits.
getEventConfig(eventType, version) ==
  LET key == toLowerCase(eventType)
  IN CASE key = s_motion -> Config(":rotating_light:", s_MotionDetected, 15158332)
       [] key = s_alert -> Config(":warning:", s_AlertTriggered, 16776960)
       [] key = s_person -> Config(":bust:", s_PersonDetected, 3447003)
       [] key = s_vehicle -> Config(":car:", s_VehicleDetected, 7419530)
       [] key = s_package -> Config(":package:", s_PackageDetected, 5763719)
       [] key = s_face_known /\ version = "thumb" ->
            Config(":bust:", s_KnownPersonDetected, 3447003)
       [] key = s_face_unknown /\ version = "thumb" ->
            Config(":bust:", s_UnknownPersonDetected, 16776960)
       [] key \in {s_constructor, s_proto} ->
            [emoji |-> Undef, title |-> Undef, color |-> Undef]
       [] OTHER -> Config(":bell:", s_EventDetected, 10181046)

\* decimal digit strings without leading zeros: a <= b
DecLeq(a, b) ==
  LET val(c) == CHOOSE k \in 0..9 : Digits(k) = <<c>>
  IN \/ Len(a) < Len(b)
     \/ /\ Len(a) = Len(b)
        /\ \/ a = b
           \/ \E i \in 1..Len(a) :
                /\ SubSeq(a, 1, i - 1) = SubSeq(b, 1, i - 1)
                /\ val(a[i]) < val(b[i])

\* the largest time value of a Date: 8.64e15 ms
maxTimeValue ==
  <<"8", "6", "4", "0", "0", "0", "0", "0", "0", "0", "0", "0", "0", "0", "0", "0">>

\* the formattedTimestamp of transformToDiscordFormat; toISOString raises a
\* RangeError on an invalid Date
formatTimestamp(timestamp) ==
  IF timestamp.t = "number"
    THEN IF DecLeq(timestamp.v, maxTimeValue)
           THEN [t |-> "iso", ms |-> timestamp.v] ELSE Threw
    ELSE IF JsTruthy(timestamp) THEN timestamp ELSE [t |-> "iso", ms |-> <<"n", "o", "w">>]

Field(name, value, inline) == [name |-> name, value |-> value, inline |-> inline]

s_sep == <<",", " ">>

\* variant: the `|| "unknown"` defaults are missing
conditionText_NoDefault(cond) ==
  LET c == Prop(cond, "condition")
  IN IF JsTruthy(c)
       THEN JsString(Prop(c, "source")) \o <<" ", "(">> \o JsString(Prop(c, "type"))
            \o <<")">>
       ELSE s_unknown

\* the .map(...) callback of the Conditions field, cond non-null
conditionText(cond) ==
  LET c == Prop(cond, "condition")
  IN IF JsTruthy(c)
       THEN (IF JsTruthy(Prop(c, "source")) THEN JsString(Prop(c, "source"))
             ELSE s_unknown)
            \o <<" ", "(">>
            \o (IF JsTruthy(Prop(c, "type")) THEN JsString(Prop(c, "type"))
                ELSE s_unknown)
            \o <<")">>
       ELSE s_unknown

\* transformToDiscordFormat(eventData): the message, or Threw
transformToDiscordFormat(eventData, version) ==
  LET alarm == Prop(eventData, "alarm")
      timestamp == Prop(eventData, "timestamp")
      alarmName == IF JsTruthy(Prop(alarm, "name")) THEN Prop(alarm, "name")
                   ELSE Str(<<"U", "n", "k", "n", "o", "w", "n", " ", "A", "l", "a", "r", "m">>)
      eventType == extractEventType(alarm, version)
      deviceInfo == extractDeviceInfo(alarm)
      personInfo == IF version = "thumb" THEN extractPersonInfo(alarm) ELSE JNull
      formattedTimestamp == formatTimestamp(timestamp)
      conditions == Prop(alarm, "conditions")
      condList == IF conditions.t = "array" THEN conditions.v ELSE <<>>
  IN IF Nullish(alarm) \/ Threw \in {eventType, deviceInfo, personInfo, formattedTimestamp}
          \/ \E i \in DOMAIN condList : Nullish(condList[i])
       THEN Threw
       ELSE LET eventConfig == getEventConfig(eventType.v, version)
                fields ==
                  <<Field("Event Type", eventType, TRUE)>>
                  \o (IF JsTruthy(personInfo) /\ JsTruthy(Prop(personInfo, "name"))
                        THEN <<Field("Person", Prop(personInfo, "name"), TRUE)>>
                        ELSE <<>>)
                  \o (IF JsTruthy(deviceInfo)
                        THEN <<Field("Device", deviceInfo, TRUE)>> ELSE <<>>)
                  \o (IF JsTruthy(personInfo) /\ JsTruthy(Prop(personInfo, "eventId"))
                        THEN <<Field("Event ID", Prop(personInfo, "eventId"), TRUE)>>
                        ELSE <<>>)
                  \o (IF Len(condList) > 0
                        THEN <<Field("Conditions",
                                     Str(Join([i \in DOMAIN condList |->
                                                 conditionText(condList[i])], s_sep)),
                                     FALSE)>>
                        ELSE <<>>)
            IN [t |-> "message",
                content |-> JsString(eventConfig.emoji) \o <<" ", "*", "*">>
                            \o JsString(eventConfig.title) \o <<"*", "*">>,
                embeds |-> <<[title |-> "Unifi Protect Alert",
                              description |-> alarmName,
                              color |-> eventConfig.color,
                              timestamp |-> formattedTimestamp,
                              fields |-> fields]>>]

s_s1 == <<"s", "1">>
s_s2 == <<"s", "2">>
s_is == <<"i", "s">>
s_e1 == <<"e", "1">>
s_e2 == <<"e", "2">>
s_FrontDoorMotion ==
  <<"F", "r", "o", "n", "t", " ", "D", "o", "o", "r", " ", "M", "o", "t", "i", "o", "n">>
s_74ACB99F4E24 == <<"7", "4", "A", "C", "B", "9", "9", "F", "4", "E", "2", "4">>

s_PersonMotion == <<"P", "e", "r", "s", "o", "n", " ", "M", "o", "t", "i", "o", "n">>
s_FaceKnown1 == <<"F", "a", "c", "e", "_", "K", "n", "o", "w", "n", " ", "1">>
s_alertFace == s_alert \o <<" ">> \o s_face_unknown
s_cat == <<"c", "a", "t">>
s_Constructor == <<"C", "o", "n", "s", "t", "r", "u", "c", "t", "o", "r">>

Condition(source, type) == Obj([condition |-> Obj([source |-> source, type |-> type])])

Trigger(device, key, eventId, value, group) ==
  Obj([device |-> device, key |-> key, eventId |-> eventId, value |-> value,
       group |-> group])

ConditionsValues ==
  {Undef, Str(s_motion), Arr(<<>>), Arr(<<JNull>>),
   Arr(<<Condition(Str(s_motion), Str(s_is))>>),
   Arr(<<Condition(Num(<<"5">>), Undef)>>),
   Arr(<<Condition(Str(s_PersonMotion), Str(s_is))>>),
   Arr(<<Condition(Str(s_FaceKnown1), Str(s_is))>>),
   Arr(<<Condition(Str(s_alertFace), Undef)>>),
   Arr(<<Condition(Str(s_cat), Str(s_is))>>),
   Arr(<<Condition(Str(s_Constructor), Str(s_is))>>)}

TriggersValues ==
  {Undef, Str(s_motion), Arr(<<>>), Arr(<<JNull>>),
   Arr(<<Trigger(Str(s_74ACB99F4E24), Str(s_motion), Undef, Undef, Undef)>>),
   Arr(<<Trigger(Str(s_74ACB99F4E24), Str(s_motion), Str(s_e1), Undef, Undef)>>),
   Arr(<<Trigger(Undef, Str(s_face_unknown), Undef, Str(<<"B", "o", "b">>), Undef)>>),
   Arr(<<Trigger(Undef, Str(s_person), Undef, Undef, Undef),
         Trigger(Str(s_74ACB99F4E24), Undef, Undef, Undef, Undef)>>),
   Arr(<<Trigger(Undef, Str(s_face_known), Str(s_e1), Undef,
                 Obj([name |-> Str(<<"A", "l", "i", "c", "e">>)]))>>)}

\* String(sanitized.description).substring(0, 2000): the bound
TruncationLimit == 2000

\* a text one character longer than the bound
LongText == [i \in 1..(TruncationLimit + 1) |-> "x"]

\* an alarm whose name and condition source are longer than the bound
LongAlarm ==
  Obj([name |-> Str(LongText),
       conditions |-> Arr(<<Condition(Str(LongText), Str(s_is))>>),
       triggers |-> Arr(<<>>)])

\* the payload of the README's "Unifi Protect Webhook Format"
ExampleAlarm ==
  Obj([name |-> Str(s_FrontDoorMotion),
       conditions |-> Arr(<<Condition(Str(s_motion), Str(s_is))>>),
       triggers |-> Arr(<<Trigger(Str(s_74ACB99F4E24), Str(s_motion),
                                  Undef, Undef, Undef)>>)])

ExampleTimestamp ==
  Num(<<"1", "7", "2", "2", "5", "2", "6", "7", "9", "3", "9", "5", "4">>)

\* condition lists of several entries
ConditionsLaterKeyword ==
  Arr(<<Condition(Str(s_cat), Str(s_is)), Condition(Str(s_PersonMotion), Str(s_is))>>)
ConditionsEarlierWins ==
  Arr(<<Condition(Str(s_alertFace), Str(s_is)), Condition(Str(s_motion), Str(s_is))>>)
ConditionsFirstNoSource ==
  Arr(<<Condition(Undef, Str(s_is)), Condition(Str(s_cat), Undef)>>)
ConditionsNoObject ==
  Arr(<<Obj([condition |-> Undef]), Condition(Str(s_cat), Str(s_is))>>)

\* trigger lists of several entries: a motion trigger with an event id before
\* two face triggers, and a face trigger before a trigger with an event id
TriggersFaceSecond ==
  Arr(<<Trigger(Str(s_74ACB99F4E24), Str(s_motion), Str(s_e1), Undef, Undef),
        Trigger(Undef, Str(s_face_known), Str(s_e2), Str(<<"B", "o", "b">>),
                Obj([name |-> Str(<<"A", "l", "i", "c", "e">>)])),
        Trigger(Undef, Str(s_face_unknown), Str(s_e1), Str(<<"E", "v", "e">>), Undef)>>)
TriggersFaceFirst ==
  Arr(<<Trigger(Undef, Str(s_face_unknown), Undef, Undef, Undef),
        Trigger(Undef, Str(s_motion), Str(s_e1), Undef, Undef)>>)

ExtraAlarms ==
  {Obj([name |-> Str(s_FrontDoorMotion), conditions |-> c, triggers |-> Arr(<<>>)]) :
     c \in {ConditionsLaterKeyword, ConditionsEarlierWins, ConditionsFirstNoSource,
            ConditionsNoObject}}
  \cup {Obj([name |-> Str(s_FrontDoorMotion),
             conditions |-> Arr(<<Condition(Str(s_motion), Str(s_is))>>),
             triggers |-> t]) :
          t \in {TriggersFaceSecond, TriggersFaceFirst}}

AlarmValues ==
  {Undef, Str(s_motion)}
  \cup {Obj([name |-> n, conditions |-> c, triggers |-> t]) :
          n \in {Undef, Str(s_FrontDoorMotion)}, c \in ConditionsValues, t \in TriggersValues}

TimestampValues ==
  {Undef,
   Num(<<"1", "7", "2", "2", "5", "2", "6", "7", "9", "3", "9", "5", "4">>),
   Num(<<"8", "6", "4", "0", "0", "0", "0", "0", "0", "0", "0", "0", "0", "0", "0", "1">>),
   Str(<<"2", "0", "2", "5">>)}

\* req.body as the body parsers can leave it: undefined when no parser took the
\* request, else a JSON array or object (express.json parses in strict mode)
Bodies ==
  {Undef, Arr(<<>>)}
  \cup {Obj([alarm |-> a, timestamp |-> ts, secret |-> sec, password |-> Undef,
             token |-> Undef, description |-> Undef, cameraName |-> Undef]) :
          a \in AlarmValues, ts \in TimestampValues,
          sec \in {Undef, Str(s_s1), Str(s_s2)}}
  \cup {Obj([alarm |-> a, timestamp |-> ExampleTimestamp, secret |-> Undef,
             password |-> Undef, token |-> Undef, description |-> Undef,
             cameraName |-> Undef]) : a \in ExtraAlarms}
  \cup {Obj([alarm |-> LongAlarm, timestamp |-> ExampleTimestamp, secret |-> Undef,
             password |-> Undef, token |-> Undef, description |-> Undef,
             cameraName |-> Undef]),
         Obj([alarm |-> ExampleAlarm, timestamp |-> ExampleTimestamp,
              secret |-> Str(s_s1), password |-> Str(s_s2), token |-> Str(s_s2),
              description |-> Str(LongText), cameraName |-> Str(LongText)])}

ServerEnvs ==
  [version : {"alarm", "thumb"}, WEBHOOK_SECRET : {Undef, Str(s_s1)},
   PROTECT_API_KEY : BOOLEAN]

----------------------------------------------------------------------------
(* routes/webhook.js and DiscordService.processAndSend *)

\* x?.map(callback reading a property of each element) raises
mapThrows(x) ==
  /\ ~Nullish(x)
  /\ x.t # "array" \/ \E i \in DOMAIN x.v : Nullish(x.v[i])

\* the "Webhook structure" log statement of the handler (part_000:546-567) raises
structureLogThrows(b) ==
  \/ Nullish(b)
  \/ LET alarm == Prop(b, "alarm")
     IN /\ ~Nullish(alarm)
        /\ mapThrows(Prop(alarm, "triggers")) \/ mapThrows(Prop(alarm, "conditions"))

\* does the handler of this revision raise before it validates
preValidationThrows(version, b) == version = "thumb" /\ structureLogThrows(b)

\* the log statements at the head of processAndSend raise
extractionLogThrows(eventData, version) ==
  LET alarm == Prop(eventData, "alarm")
  IN \/ Nullish(alarm)
     \/ extractEventType(alarm, version) = Threw
     \/ extractDeviceInfo(alarm) = Threw
     \/ version = "thumb" /\ extractPersonInfo(alarm) = Threw

\* new Error(`Discord webhook failed: ${error.message}`)
wrapError(message) == <<"Discord webhook failed: ">> \o message

\* variant: the rethrown error drops error.message
deliveryError_NoCause(version, encoding, cause) == wrapError(<<>>)

\* the error processAndSend rejects with when the POST failed with `cause`:
\* sendMessage wraps it, and sendMessageWithThumbnail wraps what it catches
deliveryError(version, encoding, cause) ==
  IF version = "thumb" /\ encoding = "json"
    THEN wrapError(wrapError(<<cause>>))
    ELSE wrapError(<<cause>>)

\* variant: the form is built whether or not a buffer is given
encodingOf_AlwaysMultipart(thumbnailBuffer) == "multipart"

\* sendMessageWithThumbnail: multipart when a buffer is given, else sendMessage
encodingOf(thumbnailBuffer) ==
  IF thumbnailBuffer = "buffer" THEN "multipart" ELSE "json"

\* variant: any resolved response is taken as a thumbnail
thumbnailOf_AnyStatus(status) == IF status # "error" THEN "buffer" ELSE "null"

\* fetchAnimatedThumbnail: response.status === 200 && response.data; with
\* responseType "arraybuffer" response.data is the Buffer of the body
thumbnailOf(status) == IF status = "200" THEN "buffer" ELSE "null"

\* the client the service posts to the chat webhook through: axios.post
WebhookClient == DefaultAxios

\* the client fetchAnimatedThumbnail reads the platform through: axios.get
ThumbnailClient == DefaultAxios

\* variant: the `return` of the 400 branch is missing
callsCore_Always(validation) == TRUE

\* the route: is processAndSend called after this validation result
callsCore(validation) == validation.isValid

\* variant: the catch block answers 200 as well
handlerStatus_Always200(resolved) == 200

\* the route: the status answered once processAndSend has settled
\* (res.status(200) after the await, res.status(500) in the catch)
handlerStatus(resolved) == IF resolved THEN 200 ELSE 500

NoValidation == [isValid |-> FALSE, errors |-> <<"not validated">>]

IdleSrv ==
  [validation |-> NoValidation, invoked |-> FALSE, eventData |-> Undef,
   eventId |-> Undef, thumbnail |-> "none", thumbnailBuffer |-> "null",
   message |-> Undef, error |-> <<>>]

NoResponse == [status |-> 0, details |-> <<>>]

Respond(status, details) == [status |-> status, details |-> details]

\* processAndSend from transformToDiscordFormat on, `s` holding its locals
BuildMessage(s) ==
  LET m == transformToDiscordFormat(s.eventData, env.version)
  IN IF m = Threw
       THEN /\ srv' = [s EXCEPT !.error = <<"transform">>]
            /\ res' = Respond(500, <<>>)
            /\ pc' = "responded"
       ELSE /\ srv' = [s EXCEPT !.message = m]
            /\ res' = NoResponse
            /\ pc' = "send"

\* processAndSend(eventData) up to its first await
ProcessAndSend(s) ==
  IF extractionLogThrows(s.eventData, env.version)
    THEN /\ srv' = [s EXCEPT !.error = <<"extract">>]
         /\ res' = Respond(500, <<>>)
         /\ pc' = "responded"
    ELSE IF env.version = "thumb"
      THEN LET eventId == extractEventId(Prop(s.eventData, "alarm"))
               s1 == [s EXCEPT !.eventId = eventId]
           IN IF JsTruthy(eventId)
                THEN IF env.PROTECT_API_KEY
                       THEN /\ srv' = s1
                            /\ res' = NoResponse
                            /\ pc' = "fetch"
                       ELSE BuildMessage([s1 EXCEPT !.thumbnail = "skipped"])
                ELSE BuildMessage(s1)
      ELSE BuildMessage(s)

\* router.post("/"): a request arrives and the handler runs to its first await
Receive ==
  /\ program = "server"
  /\ pc = "listening"
  /\ \E b \in Bodies :
       /\ reqBody' = b
       /\ calls' = <<>>
       /\ IF preValidationThrows(env.version, b)
            THEN /\ srv' = [IdleSrv EXCEPT !.error = <<"log">>]
                 /\ res' = Respond(500, <<>>)
                 /\ pc' = "responded"
            ELSE LET validation == validateWebhookRequest(b, env.WEBHOOK_SECRET)
                 IN IF ~callsCore(validation)
                      THEN /\ srv' = [IdleSrv EXCEPT !.validation = validation]
                           /\ res' = Respond(400, validation.errors)
                           /\ pc' = "responded"
                      ELSE ProcessAndSend([IdleSrv EXCEPT
                                             !.validation = validation,
                                             !.invoked = TRUE,
                                             !.eventData = sanitizeData(b)])
  /\ UNCHANGED <<procs, program, env, cliVars>>

\* fetchAnimatedThumbnail: await axios.get(thumbnailUrl), then the message is built
FetchAnimatedThumbnail ==
  /\ pc = "fetch"
  /\ \E status \in {"200", "204", "error"} :
       /\ calls' = Append(calls, Call(ThumbnailClient, "protect", "animated-thumbnail",
                                      status # "error", srv.eventId))
       /\ BuildMessage([srv EXCEPT
                          !.thumbnail = IF status = "200" THEN "fetched" ELSE "failed",
                          !.thumbnailBuffer = thumbnailOf(status)])
  /\ UNCHANGED <<procs, program, env, reqBody, cliVars>>

\* sendMessage / sendMessageWithThumbnail: await axios.post(this.webhookUrl), then
\* the handler answers
SendMessage ==
  /\ pc = "send"
  /\ \E outcome \in {"200", "204", "timeout", "status 500"} :
       LET ok == outcome \in {"200", "204"}
           encoding == encodingOf(srv.thumbnailBuffer)
       IN /\ calls' = Append(calls, Call(WebhookClient, "discord", "webhook", ok,
                                         [encoding |-> encoding, message |-> srv.message,
                                          outcome |-> outcome]))
          /\ srv' = IF ok THEN srv
                     ELSE [srv EXCEPT
                             !.error = deliveryError(env.version, encoding, outcome)]
          /\ res' = Respond(handlerStatus(ok), <<>>)
          /\ pc' = "responded"
  /\ UNCHANGED <<procs, program, env, reqBody, cliVars>>

\* the handler has answered: the request and its locals are dropped and the
\* server waits for the next request
NextRequest ==
  /\ pc = "responded"
  /\ pc' = "listening"
  /\ calls' = <<>>
  /\ reqBody' = Undef
  /\ srv' = IdleSrv
  /\ res' = NoResponse
  /\ UNCHANGED <<procs, program, env, cliVars>>

----------------------------------------------------------------------------
(* The programs *)

IdleEnv == [version |-> "alarm", WEBHOOK_SECRET |-> Undef, PROTECT_API_KEY |-> FALSE]

CliInit ==
  /\ program \in {"single", "uploader", "download"}
  /\ pc = "start"
  /\ cookiesTxt \in InitialCookieFiles
  /\ events \in IF program \in {"single", "download"}
                  THEN {<<[id |-> i, camera |-> TRUE, type |-> "motion"]>> :
                          i \in EventIds}
                  ELSE {<<>>}
  /\ idx = IF program \in {"single", "download"} THEN 1 ELSE 0
  /\ processed = IF program = "single" THEN <<events[1].id>> ELSE <<>>
  /\ env = IdleEnv

ServerInit ==
  /\ program = "server"
  /\ pc = "listening"
  /\ cookiesTxt = NoFile
  /\ events = <<>>
  /\ idx = 0
  /\ processed = <<>>
  /\ env \in ServerEnvs

Init ==
  /\ CliInit \/ ServerInit
  /\ sessionToken = Null
  /\ sessionLoaded = FALSE
  /\ authResult = "none"
  /\ calls = <<>>
  /\ files = {}
  /\ successCount = 0
  /\ failureCount = 0
  /\ eventResult = "none"
  /\ reqBody = Undef
  /\ srv = IdleSrv
  /\ res = NoResponse
  /\ procs = <<>>

Next ==
  \/ EnsureAuthenticated
  \/ Probe
  \/ Authenticate
  \/ GetEvents
  \/ GetEventInfo
  \/ DownloadThumbnail
  \/ UploadToDiscord
  \/ DownloadStart
  \/ DownloadLoginPage
  \/ DownloadLogin
  \/ DownloadFetch
  \/ Receive
  \/ FetchAnimatedThumbnail
  \/ SendMessage
  \/ NextRequest

Spec == Init /\ [][Next]_vars

----------------------------------------------------------------------------
(* One run of the batch uploader, with progress: every call it awaits has a *)
(* timeout (this.client: 30 s, axios.post to the chat webhook: 30 s, the    *)
(* pause between events: 1 s), so a run that can take a step takes it.      *)

UploaderInit == Init /\ program = "uploader"

UploaderNext ==
  \/ EnsureAuthenticated
  \/ Probe
  \/ Authenticate
  \/ GetEvents
  \/ DownloadThumbnail
  \/ UploadToDiscord

SpecUploader == UploaderInit /\ [][UploaderNext]_vars /\ WF_vars(UploaderNext)

----------------------------------------------------------------------------
(* Concurrent dispatches: several runs of the CLI programs, each its own   *)
(* process, load and save the one cookies.txt of the working directory.    *)
(* fs.writeFileSync(path, data) is open(path, "w"), which truncates, then   *)
(* write(fd, data) at offset 0, then close: two steps another process can   *)
(* interleave with.  fs.readFileSync reads what the file holds at that time.*)

\* session tokens the platform hands out, in this order, one per login it accepts
FreshTokens == <<<<"b", "b">>, <<"a">>, <<"c", "c", "c">>>>

\* the token cookies.txt holds from an earlier run
s_old == <<"o", "l", "d">>

\* set-cookie header of a login response that issues token t
TokenCookie(t) == s_TOKEN_EQ \o t \o s_SEMI

\* tokens issued by the login responses received so far
IssuedTokens ==
  {extractToken(Null, calls[i].info.cookies) :
     i \in {j \in CallsOf("login") : calls[j].ok /\ calls[j].info.hasCookies}}

\* the token the next accepted login is handed, if the platform has one left
NextFresh ==
  LET n == Cardinality(IssuedTokens) + 1
  IN IF n \in DOMAIN FreshTokens THEN {FreshTokens[n]} ELSE {}

RaceLoginResponses(fresh) ==
  {[kind |-> "error", hasCookies |-> FALSE, cookies |-> <<>>],
   [kind |-> "ok", hasCookies |-> FALSE, cookies |-> <<>>]}
  \cup {[kind |-> "ok", hasCookies |-> TRUE, cookies |-> <<c_other, TokenCookie(t)>>] :
          t \in fresh}

NotRead == [exists |-> FALSE, readable |-> FALSE, content |-> <<"not read">>]

\* a dispatch before it starts; kind "uploader" probes a loaded token
\* (ensureAuthenticated), kind "download" uses it as it is (download-thumbnail.mjs)
NewDispatch(kind) ==
  [kind |-> kind, pc |-> "load", token |-> Null, read |-> NotRead, data |-> <<>>]

\* write(fd, data) at offset 0 of a file holding `content`
WriteAt0(content, data) ==
  data \o SubSeq(content, Len(data) + 1, Len(content))

SetProc(p, r) == procs' = [procs EXCEPT ![p] = r]

\* loadExistingSession / the head of downloadThumbnail: existsSync, readFileSync, match
RaceLoad(p) ==
  /\ procs[p].pc = "load"
  /\ LET r == loadExistingSession(cookiesTxt, procs[p].token)
     IN SetProc(p, [procs[p] EXCEPT
                      !.read = cookiesTxt,
                      !.token = r.token,
                      !.pc = IF ~r.ok THEN "login"
                             ELSE IF procs[p].kind = "uploader" THEN "probe"
                             ELSE "done"])
  /\ UNCHANGED <<program, pc, calls, cliVars, srvVars>>

\* ensureAuthenticated: await this.client.get(/api/auth/me)
RaceProbe(p) ==
  /\ procs[p].pc = "probe"
  /\ \E ok \in BOOLEAN :
       /\ calls' = Append(calls, Call(ProtectClient, "protect", "probe", ok, "me"))
       /\ SetProc(p, [procs[p] EXCEPT
                        !.pc = IF ProbeNext(ok) = "return" THEN "done" ELSE "login"])
  /\ UNCHANGED <<program, pc, cliVars, srvVars>>

\* authenticate up to the save: the login call, the token taken from its response
RaceLogin(p) ==
  /\ procs[p].pc = "login"
  /\ \E resp \in RaceLoginResponses(NextFresh), now \in Clock :
       LET r == authenticate(procs[p].token, cookiesTxt, resp, now)
       IN /\ calls' = Append(calls, Call(ProtectClient, "protect", "login",
                                         resp.kind = "ok", resp))
          /\ SetProc(p, [procs[p] EXCEPT
                           !.token = r.token,
                           !.data = IF r.ok THEN r.file.content ELSE <<>>,
                           !.pc = IF r.ok THEN "open" ELSE "done"])
  /\ UNCHANGED <<program, pc, cliVars, srvVars>>

\* fs.writeFileSync("cookies.txt", cookieLine), first step: open with truncation
RaceOpen(p) ==
  /\ procs[p].pc = "open"
  /\ cookiesTxt' = FileWith(<<>>)
  /\ SetProc(p, [procs[p] EXCEPT !.pc = "write"])
  /\ UNCHANGED <<program, pc, calls, sessionToken, sessionLoaded, authResult, files,
                 events, idx, successCount, failureCount, processed, eventResult,
                 srvVars>>

\* fs.writeFileSync("cookies.txt", cookieLine), second step: the write
RaceWrite(p) ==
  /\ procs[p].pc = "write"
  /\ cookiesTxt' = FileWith(WriteAt0(cookiesTxt.content, procs[p].data))
  /\ SetProc(p, [procs[p] EXCEPT !.pc = "done"])
  /\ UNCHANGED <<program, pc, calls, sessionToken, sessionLoaded, authResult, files,
                 events, idx, successCount, failureCount, processed, eventResult,
                 srvVars>>

RaceInit ==
  /\ program = "dispatches"
  /\ pc = "running"
  /\ cookiesTxt \in {NoFile, FileWith(cookieLine(s_HOST, Expiry(1722440393), s_old))}
  /\ procs = [p \in 1..NumDispatches |->
                NewDispatch(IF p % 2 = 1 THEN "uploader" ELSE "download")]
  /\ sessionToken = Null
  /\ sessionLoaded = FALSE
  /\ authResult = "none"
  /\ calls = <<>>
  /\ files = {}
  /\ events = <<>>
  /\ idx = 0
  /\ successCount = 0
  /\ failureCount = 0
  /\ processed = <<>>
  /\ eventResult = "none"
  /\ env = IdleEnv
  /\ reqBody = Undef
  /\ srv = IdleSrv
  /\ res = NoResponse

RaceNext ==
  \/ \E p \in DOMAIN procs : RaceLoad(p)
  \/ \E p \in DOMAIN procs : RaceProbe(p)
  \/ \E p \in DOMAIN procs : RaceLogin(p)
  \/ \E p \in DOMAIN procs : RaceOpen(p)
  \/ \E p \in DOMAIN procs : RaceWrite(p)

SpecRace == RaceInit /\ [][RaceNext]_vars

----------------------------------------------------------------------------
(* Properties *)

Cli == program \in {"single", "uploader"}

Logins == Cardinality(CallsOf("login"))
Probes == Cardinality(CallsOf("probe"))
ProbeSucceeded == \E i \in CallsOf("probe") : calls[i].ok

\* C1: one call of ensureAuthenticated issues no login when a cached session
\* was loaded and its probe succeeded, exactly one login otherwise, and never
\* more than one probe and one login.
C1_LoginCalls ==
  /\ Probes <= 1
  /\ Logins <= 1
  /\ authResult # "none" =>
       Logins = IF sessionLoaded /\ ProbeSucceeded THEN 0 ELSE 1

C1_Witness ==
  /\ authResult # "none"
  /\ sessionLoaded
  /\ Probes = 1
  /\ ~ProbeSucceeded
  /\ Logins = 1

\* the login response carries a TOKEN cookie
CarriesToken(resp) ==
  /\ resp.kind = "ok"
  /\ resp.hasCookies
  /\ \E k \in DOMAIN resp.cookies : Includes(resp.cookies[k], s_TOKEN_EQ)

\* C2: authenticate reports failure whenever the login call fails or its
\* response carries no TOKEN cookie, also when it runs after a cached session
\* was loaded and its probe failed.
C2_AuthenticateReportsFailure ==
  Cli =>
    \A i \in CallsOf("login") :
      (~calls[i].ok \/ ~CarriesToken(calls[i].info)) => authResult = "false"

DispatchOps == {"events", "eventInfo", "thumbnail", "upload"}
DispatchCalls == {i \in DOMAIN calls : calls[i].op \in DispatchOps}

\* C3: in the CLI drivers a failed ensureAuthenticated aborts the run (no event
\* list, event metadata, thumbnail or chat-webhook call follows), and every
\* such call is issued only after ensureAuthenticated returned success.
C3_AuthFailureAborts ==
  Cli =>
    /\ DispatchCalls # {} => authResult = "true"
    /\ pc \in {"getEvents", "getEventInfo", "download", "upload"} => authResult = "true"
    /\ authResult = "false" => pc = "done" /\ DispatchCalls = {}

C3_Witness ==
  /\ Cli
  /\ authResult = "false"
  /\ Logins = 1
  /\ pc = "done"

WebhookCalls == CallsOf("webhook")

\* a thumbnail download of a CLI driver that did not yield a file
FailedDownloads ==
  {i \in CallsOf("thumbnail") : ~downloadOk(calls[i].info.status)}

\* the service's thumbnail fetch yielded nothing (failed, or no API key)
NoThumbnail == srv.thumbnail \in {"failed", "skipped"}

\* C4 in the webhook service: after a thumbnail fetch that yielded nothing,
\* processAndSend goes on to build the message and to post it as plain JSON,
\* and what it reports is the outcome of those two steps.
C4_ServiceDegrades ==
  (program = "server" /\ NoThumbnail /\ pc \in {"send", "responded"}) =>
    /\ srv.thumbnailBuffer = "null"
    /\ pc = "send" => srv.message # Undef /\ srv.error = <<>>
    /\ pc = "responded" =>
         \/ /\ srv.error = <<"transform">>
            /\ WebhookCalls = {}
            /\ res.status = 500
         \/ /\ \E i \in WebhookCalls :
                 /\ calls[i].info.encoding = "json"
                 /\ res.status = IF calls[i].ok THEN 200 ELSE 500
            /\ srv.error # <<"transform">>

C6_AckOnlyAfterDelivery ==
  res.status = 200 =>
    /\ srv.invoked
    /\ \E i \in WebhookCalls : calls[i].ok /\ calls[i].dest = "discord"

C6_Witness ==
  /\ res.status = 200
  /\ pc = "responded"
  /\ \E i \in WebhookCalls : calls[i].ok

\* the verdict of the validator on the request being handled
Verdict == validateWebhookRequest(reqBody, env.WEBHOOK_SECRET)

\* C7: every request whose body fails validateWebhookRequest (an absent or
\* non-object body included) is answered 400 with the validation errors, never
\* 500; 500 is answered only when processing after a successful validation fails.
C7_InvalidIs400 ==
  (program = "server" /\ pc = "responded") =>
    /\ ~Verdict.isValid => res.status = 400 /\ res.details = Verdict.errors
    /\ res.status = 500 => Verdict.isValid /\ srv.invoked

\* the payload has what validator.js requires
WellFormed(data) ==
  /\ data.t = "object"
  /\ JsTruthy(Prop(data, "timestamp"))
  /\ Prop(data, "alarm").t = "object"
  /\ JsTruthy(Prop(Prop(data, "alarm"), "name"))
  /\ Prop(Prop(data, "alarm"), "conditions").t = "array"
  /\ Prop(Prop(data, "alarm"), "triggers").t = "array"

WithSecret(b, sec) == Obj([b.v EXCEPT !["secret"] = sec])

\* C9: with a webhook secret configured, a request whose body.secret differs
\* from it or is missing is answered 400 and nothing is sent to the chat
\* webhook; with no secret configured the secret field does not influence
\* whether the request is accepted.
C9_SecretCheck ==
  (program = "server" /\ reqBody.t = "object") =>
    /\ (JsTruthy(env.WEBHOOK_SECRET)
        /\ ~StrictEq(Prop(reqBody, "secret"), env.WEBHOOK_SECRET)) =>
         /\ WebhookCalls = {}
         /\ pc = "responded" => res.status = 400
    /\ ~JsTruthy(env.WEBHOOK_SECRET) =>
         \A sec \in {Undef, Str(s_s1), Str(s_s2)} :
           validateWebhookRequest(WithSecret(reqBody, sec), env.WEBHOOK_SECRET)
             = Verdict

\* C10: relaxed certificate validation is used only for calls to the camera
\* platform; every POST to the chat webhook goes through a client with default
\* certificate validation.
C10_RelaxedTlsOnlyForPlatform ==
  \A i \in DOMAIN calls :
    /\ ~calls[i].client.rejectUnauthorized => calls[i].dest = "protect"
    /\ calls[i].dest = "discord" => calls[i].client.rejectUnauthorized

C10_Witness ==
  /\ Cli
  /\ \E i \in CallsOf("upload") : calls[i].client.rejectUnauthorized
  /\ \E i \in DOMAIN calls : ~calls[i].client.rejectUnauthorized

\* C11: in the CLI drivers the transient file thumbnail-<eventId>.jpg written by
\* processEvent is gone by the time processEvent returns, whether the upload
\* succeeded or failed: a file exists only between the download and the upload.
C11_TransientFileDeleted ==
  Cli => (pc # "upload" => files = {})

\* the content is one complete record: the line authenticate builds for one token
CompleteRecord(content, tokens) ==
  \E t \in tokens, e \in {Expiry(1722440393)} \cup {Expiry(now) : now \in Clock} :
    content = cookieLine(s_HOST, e, t)

\* C12: under any interleaving of concurrent dispatches on the shared session
\* file, what a loader reads is either no record (no file, or an empty one) or a
\* complete record whose token was issued by exactly one login response, never
\* a mixture of two writes.
C12_NoMixedRecord ==
  \A p \in DOMAIN procs :
    LET r == procs[p].read
    IN (r # NotRead /\ r.exists /\ r.content # <<>>) =>
         CompleteRecord(r.content, IssuedTokens \cup {s_old})

\* the Event Type field of a built message
EventTypeOf(message) == message.embeds[1].fields[1].value

\* C13: normalization never fails: for every payload validateWebhookRequest
\* accepted, the extraction and transformToDiscordFormat complete without
\* raising, and the extracted eventType is a non-empty string.
C13_NormalizationNeverFails ==
  (program = "server" /\ srv.invoked) =>
    LET m == transformToDiscordFormat(srv.eventData, env.version)
    IN /\ srv.error \notin {<<"extract">>, <<"transform">>}
       /\ m # Threw
       /\ EventTypeOf(m).t = "string"
       /\ EventTypeOf(m).v # <<>>

\* the keywords of C14, in its priority order
PriorityOrder ==
  <<s_motion, s_person, s_vehicle, s_package, s_alert, s_face_known, s_face_unknown>>

\* the keywords the service of src/src/services/discord.js tests for
PriorityOrderAlarm == <<s_motion, s_person, s_vehicle, s_package, s_alert>>

\* the positions in `order` of the keywords that source contains, case-insensitively
Contained(source, order) ==
  {k \in DOMAIN order : Includes(toLowerCase(source), order[k])}

\* the request carries one condition whose source is a string, and its message was built
SingleSource ==
  /\ program = "server"
  /\ srv.invoked
  /\ srv.message # Undef
  /\ Prop(Prop(srv.eventData, "alarm"), "conditions").t = "array"
  /\ Len(Prop(Prop(srv.eventData, "alarm"), "conditions").v) = 1
  /\ Prop(Prop(Prop(Prop(srv.eventData, "alarm"), "conditions").v[1], "condition"),
          "source").t = "string"

TheSource ==
  Prop(Prop(Prop(Prop(srv.eventData, "alarm"), "conditions").v[1], "condition"),
       "source").v

\* the event type is the contained keyword of `order` that comes first in it
FirstInOrder(order) ==
  Contained(TheSource, order) # {} =>
    \E k \in Contained(TheSource, order) :
      /\ \A j \in Contained(TheSource, order) : k <= j
      /\ EventTypeOf(srv.message) = Str(order[k])

\* C14 (as stated): a source containing several of the seven keywords yields the
\* one that comes first in the priority order, a source containing one yields it.
C14_KeywordPriority ==
  SingleSource => FirstInOrder(PriorityOrder)

\* C14 (amended): as stated for the service of part_001; the service of
\* src/src/services/discord.js tests for the first five keywords only, and a
\* source containing none of those five yields the lower-cased source.
C14_Amended ==
  SingleSource =>
    /\ env.version = "thumb" => FirstInOrder(PriorityOrder)
    /\ env.version = "alarm" =>
         /\ FirstInOrder(PriorityOrderAlarm)
         /\ Contained(TheSource, PriorityOrderAlarm) = {} =>
              EventTypeOf(srv.message) = Str(toLowerCase(TheSource))

C14_Witness ==
  /\ SingleSource
  /\ Cardinality(Contained(TheSource, PriorityOrder)) >= 2
  /\ TheSource = s_PersonMotion
  /\ EventTypeOf(srv.message) = Str(s_motion)

\* the generic tuple of getEventConfig
FallbackConfig == Config(":bell:", s_EventDetected, 10181046)

\* the keys of the configs table
TableKeys == {PriorityOrder[k] : k \in DOMAIN PriorityOrder}

\* C15: for every eventType that is not a key of the table after lower-casing,
\* the lower-cased verbatim condition source included, getEventConfig returns
\* the generic fallback tuple and does not raise.
C15_UnmappedIsFallback ==
  (program = "server" /\ srv.message # Undef
     /\ toLowerCase(EventTypeOf(srv.message).v) \notin TableKeys) =>
    /\ getEventConfig(EventTypeOf(srv.message).v, env.version) = FallbackConfig
    /\ srv.message.content =
         JsString(FallbackConfig.emoji) \o <<" ", "*", "*">>
           \o JsString(FallbackConfig.title) \o <<"*", "*">>
    /\ srv.message.embeds[1].color = FallbackConfig.color

IsExample ==
  /\ Prop(srv.eventData, "alarm") = ExampleAlarm
  /\ Prop(srv.eventData, "timestamp") = ExampleTimestamp

\* the triggers of the payload being dispatched
TheTriggers == Prop(Prop(srv.eventData, "alarm"), "triggers").v

\* per trigger, in trigger order, its device slot then its key slot
Slots ==
  [n \in 1..(2 * Len(TheTriggers)) |->
     IF n % 2 = 1
       THEN [label |-> s_Device, val |-> Prop(TheTriggers[(n + 1) \div 2], "device")]
       ELSE [label |-> s_Trigger, val |-> Prop(TheTriggers[n \div 2], "key")]]

FilledSlots == SelectSeq(Slots, LAMBDA x : JsTruthy(x.val))

DeviceFields(message) ==
  SelectSeq(message.embeds[1].fields, LAMBDA f : f.name = "Device")

\* C16: the README payload yields content ":rotating_light: **Motion Detected**"
\* and exactly the fields Event Type = motion, Device = "Device: 74ACB99F4E24 |
\* Trigger: motion", Conditions = "motion (is)"; in general the Device value is
\* the " | "-joined list, in trigger order, of "Device: <device>" then
\* "Trigger: <key>" for each trigger that has the field.
C16_ExampleMessage ==
  (program = "server" /\ srv.message # Undef) =>
    /\ IsExample =>
         /\ srv.message.content =
              <<":rotating_light:", " ", "*", "*">> \o s_MotionDetected \o <<"*", "*">>
         /\ srv.message.embeds[1].fields =
              <<Field("Event Type", Str(s_motion), TRUE),
                Field("Device",
                      Str(s_Device \o s_74ACB99F4E24 \o <<" ", "|", " ">>
                            \o s_Trigger \o s_motion), TRUE),
                Field("Conditions", Str(s_motion \o <<" ", "(">> \o s_is \o <<")">>),
                      FALSE)>>
    /\ IF FilledSlots = <<>> THEN DeviceFields(srv.message) = <<>>
       ELSE /\ Len(DeviceFields(srv.message)) = 1
            /\ DeviceFields(srv.message)[1].value =
                 Str(Join([i \in DOMAIN FilledSlots |->
                             FilledSlots[i].label \o JsString(FilledSlots[i].val)],
                          <<" ", "|", " ">>))

C16_Witness ==
  /\ program = "server"
  /\ env.version = "thumb"
  /\ srv.message # Undef
  /\ IsExample
  /\ pc = "responded"
  /\ res.status = 200

FieldOrder == <<"Event Type", "Person", "Device", "Event ID", "Conditions">>

FieldNames(message) ==
  [i \in DOMAIN message.embeds[1].fields |-> message.embeds[1].fields[i].name]

HasField(message, name) ==
  \E i \in DOMAIN message.embeds[1].fields : message.embeds[1].fields[i].name = name

\* positions of the face-recognition triggers of the payload being dispatched
FaceTriggers ==
  {i \in DOMAIN TheTriggers :
     Prop(TheTriggers[i], "key") \in {Str(s_face_known), Str(s_face_unknown)}}

\* the first of them: the trigger the person record is taken from
FaceTrigger == TheTriggers[CHOOSE i \in FaceTriggers : \A j \in FaceTriggers : i <= j]

\* the service extracts a person record (the service of discord.js has none)
HasPerson == env.version = "thumb" /\ FaceTriggers # {}

PersonNamePresent ==
  /\ HasPerson
  /\ \/ JsTruthy(Prop(Prop(FaceTrigger, "group"), "name"))
     \/ JsTruthy(Prop(FaceTrigger, "value"))

PersonEventIdPresent == HasPerson /\ JsTruthy(Prop(FaceTrigger, "eventId"))

ConditionsFields(message) ==
  SelectSeq(message.embeds[1].fields, LAMBDA f : f.name = "Conditions")

\* C18: no description or condition-summary text of the outbound message is
\* longer than the truncation limit (2000 characters), whatever the lengths of
\* alarm.name, description and the condition sources of the accepted payload.
C18_TextWithinLimit ==
  (program = "server" /\ srv.message # Undef) =>
    /\ Len(JsString(srv.message.embeds[1].description)) <= TruncationLimit
    /\ \A i \in DOMAIN ConditionsFields(srv.message) :
         Len(JsString(ConditionsFields(srv.message)[i].value)) <= TruncationLimit

SensitiveKeys == {"secret", "password", "token"}

\* the texts an outbound message carries
MessageTexts(message) ==
  {message.content, JsString(message.embeds[1].description)}
  \cup {JsString(message.embeds[1].fields[i].value) :
          i \in DOMAIN message.embeds[1].fields}

\* C19: the data handed to processAndSend never carries the top-level fields
\* secret, password or token of the inbound body, so none of their values shows
\* in the outbound chat message; sanitizeData leaves every other top-level
\* field present and the request body itself unmodified.
C19_SensitiveFieldsRemoved ==
  (program = "server" /\ srv.invoked) =>
    /\ \A k \in SensitiveKeys : Prop(srv.eventData, k) = Undef
    /\ \A k \in BodyKeys \ SensitiveKeys :
         /\ Prop(srv.eventData, k) = Undef <=> Prop(reqBody, k) = Undef
         /\ k \in {"alarm", "timestamp"} => Prop(srv.eventData, k) = Prop(reqBody, k)
    /\ reqBody \in Bodies
    /\ \A i \in WebhookCalls, k \in SensitiveKeys :
         Prop(reqBody, k) # Undef =>
           JsString(Prop(reqBody, k)) \notin MessageTexts(calls[i].info.message)

C19_Witness ==
  /\ program = "server"
  /\ srv.invoked
  /\ Prop(reqBody, "secret") = Str(s_s1)
  /\ Prop(reqBody, "password") = Str(s_s2)
  /\ Prop(srv.eventData, "description") # Undef
  /\ WebhookCalls # {}

\* the platform requests a run issues once ensureAuthenticated has returned
PlatformRequests ==
  {i \in DOMAIN calls : calls[i].op \in {"events", "eventInfo", "thumbnail"}}

\* the token such a request carries in its Cookie header
CookieToken(i) ==
  IF calls[i].op = "thumbnail" THEN calls[i].info.token ELSE calls[i].info

\* C20: after ensureAuthenticated returned success, every later platform
\* request of the run carries either the cached token that passed the probe or
\* the token extracted from this call's own login response; a token that
\* failed its probe is never used afterwards.
C20_TokenIsValidated ==
  Cli =>
    \A i \in PlatformRequests :
      IF ProbeSucceeded
        THEN CookieToken(i) = tokenMatch(cookiesTxt.content)
        ELSE \E j \in CallsOf("login") :
               /\ CarriesToken(calls[j].info)
               /\ CookieToken(i) = extractToken(Null, calls[j].info.cookies)

\* the token a login response yields: Null when it carries no TOKEN cookie
TokenOf(resp) ==
  IF CarriesToken(resp) THEN extractToken(Null, resp.cookies) ELSE Null

\* call i carries the token loaded from cookies.txt: a session was loaded and
\* no login before i yielded a token
UsesCached(i) ==
  /\ sessionLoaded
  /\ calls[i].op \in {"probe", "events", "eventInfo", "thumbnail"}
  /\ \A j \in CallsOf("login") : j < i => ~Truthy(TokenOf(calls[j].info))

\* C21: in every driver a token loaded from the session file is used for a
\* platform fetch only after it passed a probe in the same invocation, and a
\* rejected first use of the loaded token is followed by one fresh login
\* rather than by the end of the invocation.
C21_CachedTokenProbedFirst ==
  /\ \A i \in PlatformRequests :
       UsesCached(i) => \E j \in CallsOf("probe") : j < i /\ calls[j].ok
  /\ pc = "done" =>
       \A i \in DOMAIN calls :
         (UsesCached(i) /\ ~calls[i].ok
            /\ \A k \in 1..(i - 1) : ~(UsesCached(k) /\ calls[k].ok)) =>
           \E j \in CallsOf("login") : j > i

\* cookies.txt written by a login whose response yielded token T at time `now`
RecordFor(T) ==
  {FileWith(cookieLine(s_HOST, Expiry(now), T)) : now \in Clock}

\* C22: the session file is written only by an authentication that succeeded:
\* a step that is no login, and a login that fails or whose response carries
\* no token, leave cookies.txt as it was; a successful login overwrites it
\* with the one record of the host, now + 24 h and the token of that response.
C22_SessionFileWrites ==
  [][IF Len(calls') = Len(calls) + 1 /\ calls'[Len(calls')].op = "login"
       THEN LET T == TokenOf(calls'[Len(calls')].info)
            IN IF Truthy(T) THEN cookiesTxt' \in RecordFor(T)
               ELSE cookiesTxt' = cookiesTxt
       ELSE cookiesTxt' = cookiesTxt]_vars

\* a later time at which the same session is written again
LaterClock == {now + 60 : now \in Clock}

\* C23: save/load round trip: once an authenticate extracted token T from its
\* login response and wrote the session file, loadExistingSession on that file
\* returns true with sessionToken = T, and writing the same session again
\* leaves the loadable token unchanged.
C23_SaveLoadRoundTrip ==
  \A i \in CallsOf("login") :
    LET T == TokenOf(calls[i].info)
    IN (Cli /\ Truthy(T)) =>
         /\ sessionToken = T
         /\ loadExistingSession(cookiesTxt, Null) = [ok |-> TRUE, token |-> T]
         /\ \A now \in Clock \cup LaterClock :
              LET again == authenticate(T, cookiesTxt, calls[i].info, now)
              IN /\ again.ok
                 /\ loadExistingSession(again.file, Null) = [ok |-> TRUE, token |-> T]
                 /\ now \in Clock => again.file = cookiesTxt

C23_Witness ==
  /\ program = "uploader"
  /\ \E i \in CallsOf("login") :
       /\ TokenOf(calls[i].info) = <<"T", "O", "K", "E", "N", ".", "e", "y", "J", "-", "_">>
       /\ tokenMatch(cookiesTxt.content) = TokenOf(calls[i].info)
  /\ pc = "done"

\* cookies.txt is missing, cannot be read, or holds no TOKEN entry
NoUsableSession(file) ==
  \/ ~file.exists
  \/ ~file.readable
  \/ tokenMatch(file.content) = Null

\* C24: loading the session fails silently: with the session file missing,
\* unreadable or without a TOKEN entry the load yields no session and raises
\* nothing, and the run goes on to a login without issuing a probe.
C24_LoadFailsSilently ==
  (pc # "start" /\ Logins = 0 /\ NoUsableSession(cookiesTxt)
     /\ program \in {"single", "uploader", "download"}) =>
    /\ pc # "crashed"
    /\ ~sessionLoaded
    /\ Probes = 0
    /\ Cli => pc = "login"
    /\ program = "download" => pc \in {"dlPage", "dlLogin", "done"}

\* the conditions of the payload being dispatched
TheConditions == Prop(Prop(srv.eventData, "alarm"), "conditions").v

\* condition.source of an entry, Undef when the entry has none
SourceOf(cond) == Prop(Prop(cond, "condition"), "source")

\* condition.type of an entry, Undef when the entry has none
TypeOf(cond) == Prop(Prop(cond, "condition"), "type")

\* the keywords the running revision of the service tests for
OrderOf(version) == IF version = "thumb" THEN PriorityOrder ELSE PriorityOrderAlarm

\* positions of the conditions whose source contains a keyword of `order`
Matching(order) ==
  {i \in DOMAIN TheConditions :
     /\ SourceOf(TheConditions[i]).t = "string"
     /\ Contained(SourceOf(TheConditions[i]).v, order) # {}}

\* C25: extractEventType returns the keyword matched in the earliest condition
\* whose source contains any keyword (the first of the priority order that this
\* source contains); when no source contains a keyword it returns the
\* lower-cased source of the first condition only, and "unknown" when that
\* first condition has no source, even when a later condition has one.
C25_ScanInDocumentOrder ==
  (program = "server" /\ srv.message # Undef) =>
    LET order == OrderOf(env.version)
        hits == Matching(order)
    IN IF hits # {}
         THEN LET i == CHOOSE n \in hits : \A j \in hits : n <= j
                  ks == Contained(SourceOf(TheConditions[i]).v, order)
              IN EventTypeOf(srv.message) =
                   Str(order[CHOOSE k \in ks : \A j \in ks : k <= j])
         ELSE IF TheConditions # <<>> /\ JsTruthy(SourceOf(TheConditions[1]))
           THEN EventTypeOf(srv.message) =
                  Str(toLowerCase(SourceOf(TheConditions[1]).v))
           ELSE EventTypeOf(srv.message) = Str(s_unknown)

C25_Witness ==
  /\ program = "server"
  /\ env.version = "thumb"
  /\ srv.message # Undef
  /\ Prop(Prop(srv.eventData, "alarm"), "conditions") = ConditionsFirstNoSource
  /\ EventTypeOf(srv.message) = Str(s_unknown)

\* the alarm of the payload with its triggers cut down to the list `trigs`
AlarmWithTriggers(trigs) ==
  Obj([Prop(srv.eventData, "alarm").v EXCEPT !["triggers"] = Arr(trigs)])

\* C26: extractPersonInfo returns the record of the first trigger whose key is
\* face_known or face_unknown, with name = trigger.group.name if present, else
\* trigger.value, and eventId = that trigger's eventId; it returns absent when
\* no trigger has such a key, and no other trigger influences the result.
C26_FirstFaceTrigger ==
  (program = "server" /\ env.version = "thumb" /\ srv.message # Undef) =>
    LET p == extractPersonInfo(Prop(srv.eventData, "alarm"))
    IN IF FaceTriggers = {} THEN p = JNull
       ELSE /\ Prop(p, "name") =
                 (IF JsTruthy(Prop(Prop(FaceTrigger, "group"), "name"))
                    THEN Prop(Prop(FaceTrigger, "group"), "name")
                  ELSE IF JsTruthy(Prop(FaceTrigger, "value"))
                    THEN Prop(FaceTrigger, "value")
                  ELSE JNull)
            /\ Prop(p, "eventId") = Prop(FaceTrigger, "eventId")
            /\ p = extractPersonInfo(AlarmWithTriggers(<<FaceTrigger>>))

C26_Witness ==
  /\ program = "server"
  /\ env.version = "thumb"
  /\ srv.message # Undef
  /\ Prop(Prop(srv.eventData, "alarm"), "triggers") = TriggersFaceSecond
  /\ \E i \in DOMAIN srv.message.embeds[1].fields :
       srv.message.embeds[1].fields[i] =
         Field("Person", Str(<<"A", "l", "i", "c", "e">>), TRUE)
  /\ \E i \in DOMAIN srv.message.embeds[1].fields :
       srv.message.embeds[1].fields[i] = Field("Event ID", Str(s_e2), TRUE)

\* x, or "unknown" in its place when it is missing
OrUnknown(x) == IF JsTruthy(x) THEN JsString(x) ELSE s_unknown

\* "<source> (<type>)" of an entry, each defaulting to "unknown"
SourceAndType(cond) ==
  OrUnknown(SourceOf(cond)) \o <<" ", "(">> \o OrUnknown(TypeOf(cond)) \o <<")">>

\* the Conditions field holds the ", "-joined texts, absent without conditions
ConditionsFieldIs(texts) ==
  IF Len(TheConditions) = 0 THEN ConditionsFields(srv.message) = <<>>
  ELSE /\ Len(ConditionsFields(srv.message)) = 1
       /\ ConditionsFields(srv.message)[1].value = Str(Join(texts, <<",", " ">>))

\* C27 (as stated): the Conditions value is the comma-separated list, in
\* condition order, of "<source> (<type>)" for every entry, a missing source or
\* type (an entry with no condition object included) rendered as "unknown" in
\* its place; the field is absent when there are no conditions.
C27_ConditionsSummary ==
  (program = "server" /\ srv.message # Undef) =>
    ConditionsFieldIs([i \in DOMAIN TheConditions |-> SourceAndType(TheConditions[i])])

\* C27 (amended): as stated for every entry that has a condition object; an
\* entry with no condition object is rendered as the single word "unknown".
C27_Amended ==
  (program = "server" /\ srv.message # Undef) =>
    ConditionsFieldIs([i \in DOMAIN TheConditions |->
                         IF JsTruthy(Prop(TheConditions[i], "condition"))
                           THEN SourceAndType(TheConditions[i])
                           ELSE s_unknown])

C27_Witness ==
  /\ program = "server"
  /\ srv.message # Undef
  /\ Prop(Prop(srv.eventData, "alarm"), "conditions") = ConditionsFirstNoSource
  /\ ConditionsFields(srv.message)[1].value =
       Str(s_unknown \o <<" ", "(">> \o s_is \o <<")", ",", " ">> \o s_cat
             \o <<" ", "(">> \o s_unknown \o <<")">>)

ThumbnailCalls == CallsOf("animated-thumbnail")

\* positions of the triggers that carry a non-empty eventId
WithEventId == {i \in DOMAIN TheTriggers : JsTruthy(Prop(TheTriggers[i], "eventId"))}

\* the eventId of the first of them
FirstEventId ==
  Prop(TheTriggers[CHOOSE i \in WithEventId : \A j \in WithEventId : i <= j], "eventId")

EventIdFields(message) ==
  SelectSeq(message.embeds[1].fields, LAMBDA f : f.name = "Event ID")

\* C29: whenever a dispatched message both shows an Event ID field and carries
\* a thumbnail attachment, the Event ID shown is the event id the thumbnail was
\* fetched for; and whenever an event id was extracted for the thumbnail
\* lookup, the message shows an Event ID field.
C29_EventIdMatchesThumbnail ==
  (program = "server" /\ env.version = "thumb" /\ srv.message # Undef) =>
    /\ (EventIdFields(srv.message) # <<>> /\ srv.thumbnailBuffer = "buffer") =>
         \A i \in ThumbnailCalls : EventIdFields(srv.message)[1].value = calls[i].info
    /\ JsTruthy(srv.eventId) => EventIdFields(srv.message) # <<>>

\* the ids of the first n listed events, in list order
ListedIds(n) == [i \in 1..n |-> events[i].id]

\* run() is inside its loop, handling the event at position idx
InLoop == pc \in {"download", "upload"}

\* what run() has done so far is the list handled in order, one call of
\* processEvent per position, each finished one counted once
C30_Progress ==
  /\ idx <= Len(events)
  /\ processed = ListedIds(idx)
  /\ successCount + failureCount = IF InLoop THEN idx - 1 ELSE idx
  /\ InLoop => idx >= 1
  /\ pc = "done" => idx = Len(events)

\* C30: the batch uploader's run processes every listed event exactly once, in
\* list order, and always terminates: a failed event never stops the
\* following ones, and at the end successCount + failureCount is the number of
\* listed events.
C30_RunCompletes ==
  /\ []C30_Progress
  /\ <>(pc = "done")
  /\ [](pc = "done" =>
          /\ processed = ListedIds(Len(events))
          /\ successCount + failureCount = Len(events))

C30_Witness ==
  /\ program = "uploader"
  /\ pc = "done"
  /\ Len(events) = MaxEvents
  /\ failureCount >= 1
  /\ successCount >= 1
  /\ eventResult = "true"
  /\ processed = ListedIds(MaxEvents)

====
